---------------------------- MODULE Spec2Model ----------------------------
(***************************************************************************)
(* A model of the Hangman web application (src/app.py).                    *)
(*                                                                         *)
(* State: the browser session (a signed cookie holding a Python dict), the *)
(* user table and the start-up configuration (whether an API key is set).  *)
(* Every route handler is an operator from the state and the request to    *)
(* its outcomes (the session, the user table and the response it leaves),  *)
(* and an action that takes one of them.                                   *)
(*                                                                         *)
(* Text is modelled as sequences of one-character strings.  The alphabet   *)
(* is reduced to NumLetters lower-case letters, two upper-case letters and *)
(* a few non-alphabetic characters; the word lists are reduced to short    *)
(* words over that alphabet (the game logic depends on which positions of  *)
(* a word share a letter, not on which letters they are).                  *)
(***************************************************************************)
EXTENDS Integers, Sequences, FiniteSets, Bags, TLC

VARIABLES session, users, api_key, fetch, mask, race

vars == <<session, users, api_key, fetch, mask, race>>

---------------------------------------------------------------------------
(* Bounds of the model *)

\* number of lower-case letters a player can guess
NumLetters == 7
\* longest 'results' list in an API reply
MaxResults == 2
\* longest secret word the word mask is applied to on its own
MaxWordLen == 2

(* Program constants *)

MAX_LIVES == 6

GENRE_LIST == <<"Animals", "Sports", "Technology">>

\* the seven drawings, indexed by the number of misses
HANGMAN_STAGES == [misses \in 0..6 |-> misses]

---------------------------------------------------------------------------
(* Characters and strings *)

LetterSeq == <<"a", "b", "c", "d", "e", "f", "g", "h", "i", "j">>

Letters == {LetterSeq[i] : i \in 1..NumLetters}

UpperLetters == {"A", "B"}

\* str.lower() on one character
Lower(c) == IF c = "A" THEN "a" ELSE IF c = "B" THEN "b" ELSE c

\* str.lower()
LowerStr(s) == [i \in 1..Len(s) |-> Lower(s[i])]

\* str.isalpha(): non-empty and every character alphabetic
IsAlpha(s) == Len(s) > 0 /\ \A i \in 1..Len(s) : s[i] \in Letters \cup UpperLetters

\* Python's  c in s  for a character c and a string s
CharIn(c, s) == \E i \in 1..Len(s) : s[i] = c

\* Python's  g in s  for strings: g is a substring of s
StrIn(g, s) == \E i \in 1..(Len(s) + 1) :
                  /\ i + Len(g) - 1 <= Len(s)
                  /\ SubSeq(s, i, i + Len(g) - 1) = g

---------------------------------------------------------------------------
(* The word source: get_word_from_api *)

\* fallback_words of the branch taken when no API key is set
FallbackNoKey(genre) ==
    CASE genre = "Animals"    -> {<<"a", "a">>}
      [] genre = "Sports"     -> {<<"a", "b">>}
      [] genre = "Technology" -> {<<"b", "a">>}
      [] OTHER                -> {<<"a", "a">>}

\* the list used when the reply carries no usable result
FallbackNoWord == {<<"a", "b">>}

\* the list used when the request raised a RequestException
FallbackRequestFailed == {<<"a", "a">>}

\* 'word' values an API reply may carry: a capitalised word with a hyphen,
\* a word without any letter, two words, the empty string
ApiWords == {<<"A", "-">>, <<"4", "2">>, <<"a", " ", "b">>, <<>>}

\* items of a 'results' list: a dict with a 'word', a dict without one, a
\* dict whose 'word' is null, and a value that is no container (a number)
ApiItems == [type : {"word"}, word : ApiWords]
            \cup [type : {"no_word", "null_word", "number"}, word : {<<>>}]

SeqsUpTo(S, n) == UNION {[1..k -> S] : k \in 0..n}

\* replies of one HTTP call.  kind: the request timed out or could not
\* connect; the status was 4xx/5xx; the body was no JSON; the body was JSON
\* null or an empty object; a JSON object without 'results'; a JSON number;
\* a JSON object with a 'results' list
ApiReplies ==
    [kind : {"json_results"}, results : SeqsUpTo(ApiItems, MaxResults)]
    \cup [kind : {"timeout", "bad_status", "non_json", "json_null",
                  "json_no_results", "json_number"}, results : {<<>>}]

Raised(src) == [raised |-> TRUE, word |-> <<>>, attempts |-> 1, source |-> src]

Returned(w, n, src) == [raised |-> FALSE, word |-> LowerStr(w), attempts |-> n, source |-> src]

\* the body of the try block once the reply's JSON is parsed
WordFromData(reply) ==
    IF reply.kind = "json_number"
      THEN {Raised("TypeError")}
    ELSE IF reply.kind = "json_results" /\ reply.results # <<>>
      THEN LET res == reply.results
               n   == Len(res)
           IN  IF \E i \in 1..n : res[i].type = "number"
                 THEN {Raised("TypeError")}
               ELSE LET word_list == {i \in 1..n : res[i].type \in {"word", "null_word"}}
                    IN  IF word_list # {}
                          THEN IF \E i \in word_list : res[i].type = "null_word"
                                 THEN {Raised("TypeError")}
                               ELSE LET single == {i \in word_list : ~CharIn(" ", res[i].word)}
                                    IN  IF single = {}
                                          THEN {Raised("IndexError")}
                                          ELSE {Returned(res[i].word, 1, "api") : i \in single}
                          ELSE {Returned(w, 1, "fallback_no_word") : w \in FallbackNoWord}
    ELSE {Returned(w, 1, "fallback_no_word") : w \in FallbackNoWord}

GetWordFromApi_NoCatch(key, genre, replies) ==
    IF ~key
      THEN {Returned(w, 0, "fallback_no_key") : w \in FallbackNoKey(genre)}
    ELSE LET reply == replies[1]
         IN  IF reply.kind \in {"timeout", "bad_status"}
               THEN {Raised("RequestException")}
             ELSE IF reply.kind = "non_json"
               THEN {Raised("ValueError")}
             ELSE WordFromData(reply)

\* get_word_from_api(genre): the set of its possible outcomes (random.choice
\* picks any element).  replies are the replies the API would give to
\* successive calls; the function makes one call and reads replies[1].
\* response.json() on a body that is no JSON raises a RequestException
\* subclass in requests >= 2.27 and a plain ValueError before.
GetWordFromApi(key, genre, replies) ==
    IF ~key
      THEN {Returned(w, 0, "fallback_no_key") : w \in FallbackNoKey(genre)}
    ELSE LET reply == replies[1]
         IN  IF reply.kind \in {"timeout", "bad_status"}
               THEN {Returned(w, 1, "fallback_request_failed") : w \in FallbackRequestFailed}
             ELSE IF reply.kind = "non_json"
               THEN {Returned(w, 1, "fallback_request_failed") : w \in FallbackRequestFailed}
                    \cup {Raised("ValueError")}
             ELSE WordFromData(reply)

\* the genres a session can hold: GENRE_LIST[0] by default, or the
\* genre_select value of a request
Genres == {GENRE_LIST[i] : i \in 1..Len(GENRE_LIST)} \cup {"Other"}

\* the outcomes of get_word_from_api(genre) over every reply of the API
WordSourceTable ==
    [key \in BOOLEAN, genre \in Genres |->
        UNION {GetWordFromApi(key, genre, <<reply>>) : reply \in ApiReplies}]

\* a call of get_word_from_api(genre) whatever the API answers
WordSource(key, genre) == WordSourceTable[key, genre]

---------------------------------------------------------------------------
(* The session: a Python dict, modelled as a function whose domain is the  *)
(* set of keys present.  guessed_letters, a list whose order nothing but   *)
(* sorted() reads, is modelled as a bag of strings.                        *)

EmptySession == [k \in {} |-> 0]

Has(s, k) == k \in DOMAIN s

\* session[k] = v
Put(s, k, v) == (k :> v) @@ s

\* session.pop(k, None)
Pop(s, k) == [x \in (DOMAIN s) \ {k} |-> s[x]]

\* session.get(k, default)
Get(s, k, default) == IF Has(s, k) THEN s[k] ELSE default

\* list.append
Append1(bag, e) == bag (+) SetToBag({e})

---------------------------------------------------------------------------
(* Messages.  A message is modelled by the format string that produced it; *)
(* the two substring tests the code makes are decided by the format string *)
(* (no genre and no word of the model contains "WON" or "OVER").           *)

Messages == {"lets_play", "new_game", "already", "correct", "incorrect",
             "invalid", "won", "won_new_high_score", "won_score", "game_over"}

\* "WON" in message
HasWON(m) == m \in {"won", "won_new_high_score", "won_score"}

\* "OVER" in message
HasOVER(m) == m = "game_over"

---------------------------------------------------------------------------
(* Passwords and users *)

\* hashlib.sha256(...).hexdigest(), taken to be collision free
set_password(password) == <<"sha256", password>>

check_password(password_hash, password) == password_hash = set_password(password)

NoUser == "None"

---------------------------------------------------------------------------
(* get_game_state *)

DisplayWord_FirstOccurrence(word, guessed) ==
    [i \in 1..Len(word) |->
        IF BagIn(<<word[i]>>, guessed) /\ ~\E j \in 1..(i - 1) : word[j] = word[i]
          THEN word[i] ELSE "_"]

DisplayWord_Spaced(word, guessed) ==
    [k \in 1..(2 * Len(word) - 1) |->
        IF k % 2 = 0 THEN " "
        ELSE IF BagIn(<<word[(k + 1) \div 2]>>, guessed) THEN word[(k + 1) \div 2]
        ELSE "_"]

DisplayWord_UpperCase(word, guessed) ==
    [i \in 1..Len(word) |->
        IF BagIn(<<word[i]>>, guessed)
          THEN (IF word[i] = "a" THEN "A" ELSE IF word[i] = "b" THEN "B" ELSE word[i])
          ELSE "_"]

\* the comprehension that builds display_word
DisplayWord(word, guessed) ==
    [i \in 1..Len(word) |-> IF BagIn(<<word[i]>>, guessed) THEN word[i] ELSE "_"]

Win_AnyRevealed(word, guessed) ==
    \E i \in 1..Len(word) : DisplayWord(word, guessed)[i] # "_"

\* win = '_' not in display_word
Win(word, guessed) == ~CharIn("_", DisplayWord(word, guessed))

LivesIndex(lives) == MAX_LIVES - lives

IsGameOver_WinOnly(word, guessed, lives) == Win(word, guessed)

IsGameOver_OffByOne(word, guessed, lives) ==
    Win(word, guessed) \/ LivesIndex(lives) > MAX_LIVES

\* is_game_over = win or (lives_index >= MAX_LIVES)
IsGameOver(word, guessed, lives) ==
    Win(word, guessed) \/ LivesIndex(lives) >= MAX_LIVES

Score_LengthOnly(word, lives) == Len(word) * 10

\* current_score = (len(word_to_guess) * 10) + (lives * 5)
Score(word, lives) == Len(word) * 10 + lives * 5

\* the five assignments that start a game in get_game_state
FirstGame(sess, genre, word) ==
    Put(Put(Put(Put(Put(sess, "word_to_guess", word),
                    "guessed_letters", EmptyBag),
                "lives", MAX_LIVES),
            "current_genre", genre),
        "message", "lets_play")

\* get_game_state from the line that reads the session on: the win/loss
\* check, the messages and the high score
CheckGame(sess, user, db, commit_fails) ==
    LET word    == sess["word_to_guess"]
        guessed == sess["guessed_letters"]
        lives   == sess["lives"]
        message == sess["message"]
        win     == Win(word, guessed)
        idx     == LivesIndex(lives)
        score   == Score(word, lives)
        beats   == user # NoUser /\ score > db[user].high_score
        tries   == win /\ ~HasWON(message) /\ beats
        stored  == tries /\ ~commit_fails
        msg     == IF win /\ ~HasWON(message)
                     THEN IF user = NoUser THEN "won"
                          ELSE IF ~beats THEN "won_score"
                          ELSE IF commit_fails THEN "won"
                          ELSE "won_new_high_score"
                   ELSE IF idx >= MAX_LIVES /\ ~HasOVER(message) THEN "game_over"
                   ELSE message
        db2     == IF stored
                     THEN [db EXCEPT ![user].high_score = score]
                     ELSE db
    \* HANGMAN_STAGES[lives_index] raises IndexError past the last drawing
    \* (a negative index counts from the end)
    IN  [raised      |-> idx \notin DOMAIN HANGMAN_STAGES /\ -idx \notin 1..7,
         session     |-> Put(sess, "message", msg),
         users       |-> db2,
         db_failed   |-> tries /\ commit_fails,
         rolled_back |-> tries /\ commit_fails,
         game_state  |-> [display_word |-> DisplayWord(word, guessed),
                          lives        |-> lives,
                          is_game_over |-> IsGameOver(word, guessed, lives),
                          lives_index  |-> idx,
                          high_score   |-> IF user # NoUser THEN db2[user].high_score ELSE 0]]

NoGameState == [display_word |-> <<>>, lives |-> 0, is_game_over |-> FALSE,
                lives_index |-> 0, high_score |-> 0]

\* get_game_state(user): the set of its possible outcomes
GetGameState(sess, user, db, key, commit_fails) ==
    IF ~Has(sess, "word_to_guess")
      THEN LET current_genre == Get(sess, "current_genre", GENRE_LIST[1])
           IN  {IF r.raised
                  THEN [raised |-> TRUE, session |-> sess, users |-> db,
                        db_failed |-> FALSE, rolled_back |-> FALSE,
                        game_state |-> NoGameState]
                  ELSE CheckGame(FirstGame(sess, current_genre, r.word), user, db, commit_fails)
                : r \in WordSource(key, current_genre)}
      ELSE {CheckGame(sess, user, db, commit_fails)}

---------------------------------------------------------------------------
(* Requests.  Inputs of the model. *)

Usernames == {"alice"}

Passwords == {"pw1"}

\* form values: a field left empty reads as "", a missing field as None
UsernameInputs == Usernames \cup {""}

PasswordInputs == Passwords \cup {"None"}

\* what a login may also try: a password nobody registered
WrongPasswords == {"pw2"}

\* request.form of register and login; a GET carries no form
NoForm == [username |-> "None", password |-> "None"]

Forms(passwords) == [username : UsernameInputs, password : passwords]

\* genre_select: the page offers the listed genres; the requests of the
\* model pick the second
GenreInputs == {GENRE_LIST[2]}

\* the 'letter' field: every letter, an upper-case letter, a character that
\* is no letter, the empty string and a two-letter string
LetterInputs == {<<c>> : c \in Letters \cup {"A", "_"}}
                \cup {<<>>, <<"a", "b">>}

\* The response of a request: "ok" for a rendered page or a redirect, or
\* the exception no handler caught, which Flask answers with a 500 page
\* (the session is still saved).
Responses == {"ok", "500 database error", "500 word source error",
              "500 stage index error"}

\* what a handler leaves behind: the session, the user table, the response
Outcome(sess, db, resp) == [session |-> sess, users |-> db, response |-> resp]

\* step 1 of hangman_game: is the session logged in
Authenticated(sess) ==
    /\ Get(sess, "is_authenticated", FALSE)
    /\ Get(sess, "user_id", "") \notin {"", "None"}

\* the row the user lookup of hangman_game returns
CurrentUser(sess, db) ==
    IF Authenticated(sess) /\ sess["user_id"] \in DOMAIN db
      THEN sess["user_id"] ELSE NoUser

\* the response after a call of get_game_state
Answer(g) ==
    IF ~g.raised THEN "ok"
    ELSE IF Has(g.session, "word_to_guess") THEN "500 stage index error"
    ELSE "500 word source error"

\* hangman_game, GET (or a POST with neither form field): render the page
hangman_game_render(sess, db, key, lookup_fails, commit_fails) ==
    IF lookup_fails
      THEN {Outcome(sess, db, "500 database error")}
      ELSE {Outcome(g.session, g.users, Answer(g))
            : g \in GetGameState(sess, CurrentUser(sess, db), db, key, commit_fails)}

NewGenreGame_KeepsLives(sess, genre, word) ==
    Put(Put(Put(Put(Put(sess, "current_genre", genre),
                    "word_to_guess", word),
                "guessed_letters", EmptyBag),
            "lives", Get(sess, "lives", MAX_LIVES)),
        "message", "new_game")

\* the five assignments of a genre selection
NewGenreGame(sess, genre, word) ==
    Put(Put(Put(Put(Put(sess, "current_genre", genre),
                    "word_to_guess", word),
                "guessed_letters", EmptyBag),
            "lives", MAX_LIVES),
        "message", "new_game")

\* hangman_game, POST with genre_select
hangman_game_genre(sess, db, key, selected_genre, lookup_fails) ==
    IF lookup_fails
      THEN {Outcome(sess, db, "500 database error")}
      ELSE {IF r.raised
              THEN Outcome(Put(sess, "current_genre", selected_genre), db,
                           "500 word source error")
              ELSE Outcome(NewGenreGame(sess, selected_genre, r.word), db, "ok")
            : r \in WordSource(key, selected_genre)}

ApplyGuess_NoRepeatCheck(sess, guess) ==
    LET word_to_guess   == sess["word_to_guess"]
        guessed_letters == sess["guessed_letters"]
        lives           == sess["lives"]
    IN  IF FALSE
          THEN Put(sess, "message", "already")
        ELSE IF IsAlpha(guess) /\ Len(guess) = 1
          THEN LET s1 == Put(sess, "guessed_letters", Append1(guessed_letters, guess))
               IN  IF StrIn(guess, word_to_guess)
                     THEN Put(s1, "message", "correct")
                     ELSE Put(Put(s1, "lives", lives - 1), "message", "incorrect")
        ELSE Put(sess, "message", "invalid")

ApplyGuess_NoValidation(sess, guess) ==
    LET word_to_guess   == sess["word_to_guess"]
        guessed_letters == sess["guessed_letters"]
        lives           == sess["lives"]
    IN  IF BagIn(guess, guessed_letters)
          THEN Put(sess, "message", "already")
        ELSE IF TRUE
          THEN LET s1 == Put(sess, "guessed_letters", Append1(guessed_letters, guess))
               IN  IF StrIn(guess, word_to_guess)
                     THEN Put(s1, "message", "correct")
                     ELSE Put(Put(s1, "lives", lives - 1), "message", "incorrect")
        ELSE Put(sess, "message", "invalid")

ApplyGuess_AlwaysCosts(sess, guess) ==
    LET word_to_guess   == sess["word_to_guess"]
        guessed_letters == sess["guessed_letters"]
        lives           == sess["lives"]
    IN  IF BagIn(guess, guessed_letters)
          THEN Put(sess, "message", "already")
        ELSE IF IsAlpha(guess) /\ Len(guess) = 1
          THEN LET s1 == Put(sess, "guessed_letters", Append1(guessed_letters, guess))
               IN  IF StrIn(guess, word_to_guess)
                     THEN Put(Put(s1, "lives", lives - 1), "message", "correct")
                     ELSE Put(Put(s1, "lives", lives - 1), "message", "incorrect")
        ELSE Put(sess, "message", "invalid")

ApplyGuess_NeverCosts(sess, guess) ==
    LET word_to_guess   == sess["word_to_guess"]
        guessed_letters == sess["guessed_letters"]
        lives           == sess["lives"]
    IN  IF BagIn(guess, guessed_letters)
          THEN Put(sess, "message", "already")
        ELSE IF IsAlpha(guess) /\ Len(guess) = 1
          THEN LET s1 == Put(sess, "guessed_letters", Append1(guessed_letters, guess))
               IN  IF StrIn(guess, word_to_guess)
                     THEN Put(s1, "message", "correct")
                     ELSE Put(s1, "message", "incorrect")
        ELSE Put(sess, "message", "invalid")

\* the if / elif / else on the guess in hangman_game
ApplyGuess(sess, guess) ==
    LET word_to_guess   == sess["word_to_guess"]
        guessed_letters == sess["guessed_letters"]
        lives           == sess["lives"]
    IN  IF BagIn(guess, guessed_letters)
          THEN Put(sess, "message", "already")
        ELSE IF IsAlpha(guess) /\ Len(guess) = 1
          THEN LET s1 == Put(sess, "guessed_letters", Append1(guessed_letters, guess))
               IN  IF StrIn(guess, word_to_guess)
                     THEN Put(s1, "message", "correct")
                     ELSE Put(Put(s1, "lives", lives - 1), "message", "incorrect")
        ELSE Put(sess, "message", "invalid")

\* hangman_game, POST with letter
hangman_game_letter(sess, db, key, letter, lookup_fails, commit_fails) ==
    IF lookup_fails
      THEN {Outcome(sess, db, "500 database error")}
      ELSE LET current_user == CurrentUser(sess, db)
           IN  {IF g.raised \/ g.game_state.is_game_over
                  THEN Outcome(g.session, g.users, Answer(g))
                  ELSE LET s1 == ApplyGuess(g.session, LowerStr(letter))
                           g2 == CheckGame(s1, current_user, g.users, commit_fails)
                       IN  Outcome(g2.session, g2.users, Answer(g2))
                : g \in GetGameState(sess, current_user, db, key, commit_fails)}

\* restart
restart(sess, db, key) ==
    LET current_genre == Get(sess, "current_genre", GENRE_LIST[1])
    IN  {IF r.raised
           THEN Outcome(sess, db, "500 word source error")
           ELSE Outcome(Put(Put(Put(Put(sess, "word_to_guess", r.word),
                                    "guessed_letters", EmptyBag),
                                "lives", MAX_LIVES),
                            "message", "new_game"), db, "ok")
         : r \in WordSource(key, current_genre)}

\* logout
logout(sess, db) ==
    Outcome(Pop(Pop(Pop(Pop(Pop(Pop(sess, "user_id"), "is_authenticated"),
                            "word_to_guess"), "guessed_letters"), "lives"), "message"),
            db, "ok")

\* register: simple validation of the form
Acceptable(form) ==
    form.username \notin {"", "None"} /\ form.password \notin {"", "None"}

\* register.  Every path that does not create the user answers with the
\* form (with an error on a POST); a failed lookup or commit is rolled back.
register(sess, db, method, form, lookup_fails, commit_fails) ==
    IF \/ method = "GET"
       \/ ~Acceptable(form)
       \/ lookup_fails
       \/ form.username \in DOMAIN db
       \/ commit_fails
      THEN Outcome(sess, db, "ok")
      ELSE Outcome(Put(Put(sess, "user_id", form.username), "is_authenticated", TRUE),
                   [u \in (DOMAIN db) \cup {form.username} |->
                       IF u = form.username
                         THEN [password_hash |-> set_password(form.password),
                               high_score |-> 0]
                         ELSE db[u]],
                   "ok")

login_NoPasswordCheck(sess, db, method, form, lookup_fails) ==
    IF /\ method = "POST"
       /\ ~lookup_fails
       /\ form.username \in DOMAIN db
      THEN Outcome(Put(Put(sess, "user_id", form.username), "is_authenticated", TRUE),
                   db, "ok")
      ELSE Outcome(sess, db, "ok")

\* login.  set_password(None) raises AttributeError, which the handler's
\* except Exception catches like a failed lookup.
login(sess, db, method, form, lookup_fails) ==
    IF /\ method = "POST"
       /\ ~lookup_fails
       /\ form.username \in DOMAIN db
       /\ form.password # "None"
       /\ check_password(db[form.username].password_hash, form.password)
      THEN Outcome(Put(Put(sess, "user_id", form.username), "is_authenticated", TRUE),
                   db, "ok")
      ELSE Outcome(sess, db, "ok")

---------------------------------------------------------------------------
(* The state machine: one request per step *)

NoMask == [applied |-> FALSE, word |-> <<>>, guessed |-> EmptyBag, display |-> <<>>]

NoFetch == [called |-> FALSE, genre |-> "", replies |-> <<>>,
            result |-> [raised |-> FALSE, word |-> <<>>, attempts |-> 0, source |-> "none"]]

\* two further requests to the game route, not yet arrived
NoRace == [p \in 1..2 |-> [pc |-> "idle", word |-> <<>>, lives |-> 0, high_score |-> 0]]

Init ==
    /\ session = EmptySession
    /\ users = [u \in {} |-> 0]
    /\ api_key \in BOOLEAN
    /\ fetch = NoFetch
    /\ mask = NoMask
    /\ race = NoRace

\* the database operations a request makes may fail; a request that makes
\* none has nothing to fail
MayFail(reached) == IF reached THEN BOOLEAN ELSE {FALSE}

LookupFailures == MayFail(Authenticated(session))

CommitFailures == MayFail(CurrentUser(session, users) # NoUser)

Becomes(o) ==
    /\ session' = o.session
    /\ users' = o.users
    /\ UNCHANGED <<api_key, fetch, mask, race>>

\* a request to the game route whose user lookup fails ends before its
\* form is read: one such request stands for all of them
LookupFailure ==
    /\ TRUE \in LookupFailures
    /\ \E o \in hangman_game_render(session, users, api_key, TRUE, FALSE) : Becomes(o)

Index ==
    \E commit_fails \in CommitFailures :
        \E o \in hangman_game_render(session, users, api_key, FALSE, commit_fails) :
            Becomes(o)

PostGenre ==
    \E selected_genre \in GenreInputs :
        \E o \in hangman_game_genre(session, users, api_key, selected_genre, FALSE) :
            Becomes(o)

PostLetter ==
    \E letter \in LetterInputs, commit_fails \in CommitFailures :
        \E o \in hangman_game_letter(session, users, api_key, letter, FALSE, commit_fails) :
            Becomes(o)

Restart ==
    \E o \in restart(session, users, api_key) : Becomes(o)

Logout == Becomes(logout(session, users))

Register ==
    \E method \in {"GET", "POST"} :
    \E form \in IF method = "POST" THEN Forms(PasswordInputs) ELSE {NoForm} :
    \E lookup_fails \in MayFail(method = "POST" /\ Acceptable(form)) :
    \E commit_fails \in MayFail(/\ method = "POST" /\ Acceptable(form) /\ ~lookup_fails
                                /\ form.username \notin DOMAIN users) :
        Becomes(register(session, users, method, form, lookup_fails, commit_fails))

Login ==
    \E method \in {"GET", "POST"} :
    \E lookup_fails \in MayFail(method = "POST") :
    \E form \in IF method = "POST" /\ ~lookup_fails
                  THEN Forms(PasswordInputs \cup WrongPasswords) ELSE {NoForm} :
        Becomes(login(session, users, method, form, lookup_fails))

Next ==
    \/ LookupFailure
    \/ Index
    \/ PostGenre
    \/ PostLetter
    \/ Restart
    \/ Logout
    \/ Register
    \/ Login

Spec == Init /\ [][Next]_vars

---------------------------------------------------------------------------
(* The word source on its own: one call of get_word_from_api per step, the *)
(* API answering successive calls with any replies.                        *)

\* what the API would answer to up to three successive calls
ReplySeqs == {<<r>> : r \in ApiReplies}
             \cup {<<r1, r2>> \o t : r1 \in {r \in ApiReplies : r.kind # "json_results"},
                                     r2 \in {r \in ApiReplies : Len(r.results) = 1},
                                     t \in {<<>>, <<[kind |-> "timeout", results |-> <<>>]>>}}

FetchWord ==
    \E genre \in Genres, replies \in ReplySeqs :
        \E r \in GetWordFromApi(api_key, genre, replies) :
            /\ ~fetch.called
            /\ fetch' = [called |-> TRUE, genre |-> genre, replies |-> replies, result |-> r]
            /\ UNCHANGED <<session, users, api_key, mask, race>>

NextApi == FetchWord

SpecApi == Init /\ [][NextApi]_vars

---------------------------------------------------------------------------
(* The word mask on its own: display_word for any short word over letters, *)
(* a hyphen and the placeholder character, and any guessed letters.  Only  *)
(* single alphabetic characters are ever appended to guessed_letters.      *)

MaskChars == {"a", "b", "-", "_"}

MaskWords == SeqsUpTo(MaskChars, MaxWordLen)

GuessedLetters == {SetToBag({<<c>> : c \in G}) : G \in SUBSET Letters}

ApplyMask ==
    \E word \in MaskWords, guessed \in GuessedLetters :
        /\ ~mask.applied
        /\ mask' = [applied |-> TRUE, word |-> word, guessed |-> guessed,
                    display |-> DisplayWord(word, guessed)]
        /\ UNCHANGED <<session, users, api_key, fetch, race>>

NextMask == ApplyMask

SpecMask == Init /\ [][NextMask]_vars

---------------------------------------------------------------------------
(* Concurrent requests: two sessions logged in as the same user, each with *)
(* a request that finds its game won.  Each request runs in its own worker *)
(* with its own database session; its steps are the user lookup of         *)
(* hangman_game, the comparison of get_game_state against the row it       *)
(* loaded, and the assignment and commit.                                  *)

\* the won games of the two sessions: a word and the lives left
RaceWords == {w \in SeqsUpTo({"a"}, MaxWordLen) : Len(w) > 0}

RaceLives == {1, MAX_LIVES}

\* the user both sessions are logged in as
RaceUser == CurrentUser(session, users)

\* the request of session p arrives
RaceBegin ==
    \E p \in 1..2, word \in RaceWords, lives \in RaceLives :
        /\ RaceUser # NoUser
        /\ race[p].pc = "idle"
        /\ race' = [race EXCEPT ![p] = [pc |-> "lookup", word |-> word,
                                        lives |-> lives, high_score |-> 0]]
        /\ UNCHANGED <<session, users, api_key, fetch, mask>>

\* current_user = db.session.scalar(user_stmt): the row is loaded
RaceLookup ==
    \E p \in 1..2 :
        /\ race[p].pc = "lookup"
        /\ race' = [race EXCEPT ![p].pc = "compare",
                                ![p].high_score = users[RaceUser].high_score]
        /\ UNCHANGED <<session, users, api_key, fetch, mask>>

\* if current_score > user.high_score, on the row as loaded
RaceCompare ==
    \E p \in 1..2 :
        /\ race[p].pc = "compare"
        /\ race' = [race EXCEPT ![p].pc =
                        IF Score(race[p].word, race[p].lives) > race[p].high_score
                          THEN "commit" ELSE "done"]
        /\ UNCHANGED <<session, users, api_key, fetch, mask>>

\* user.high_score = current_score; db.session.commit(), which writes the
\* row or fails and is rolled back
RaceCommit ==
    \E p \in 1..2, commit_fails \in BOOLEAN :
        /\ race[p].pc = "commit"
        /\ race' = [race EXCEPT ![p].pc = "done"]
        /\ users' = IF commit_fails THEN users
                    ELSE [users EXCEPT ![RaceUser].high_score =
                             Score(race[p].word, race[p].lives)]
        /\ UNCHANGED <<session, api_key, fetch, mask>>

\* a registration, which logs the session in
RaceRegister ==
    /\ race = NoRace
    /\ Register

NextRace ==
    \/ RaceRegister
    \/ RaceBegin
    \/ RaceLookup
    \/ RaceCompare
    \/ RaceCommit

SpecRace == Init /\ [][NextRace]_vars

---------------------------------------------------------------------------
(* One game played to its end: a visitor opens the page and keeps          *)
(* submitting letters that are valid and not yet guessed, as long as the   *)
(* game is in progress.                                                    *)

\* the first visit, which starts the game
PlayVisit ==
    /\ ~Has(session, "word_to_guess")
    /\ Index

\* a submitted letter that the guess branch accepts, in a game in progress
PlayGuess ==
    /\ Has(session, "word_to_guess")
    /\ ~IsGameOver(session["word_to_guess"], session["guessed_letters"], session["lives"])
    /\ \E letter \in LetterInputs :
          /\ IsAlpha(LowerStr(letter)) /\ Len(letter) = 1
          /\ ~BagIn(LowerStr(letter), session["guessed_letters"])
          /\ \E o \in hangman_game_letter(session, users, api_key, letter, FALSE, FALSE) :
                Becomes(o)

NextPlay ==
    \/ PlayVisit
    \/ PlayGuess

\* the player keeps submitting: a guess that stays possible is made
SpecPlay == Init /\ [][NextPlay]_vars /\ WF_vars(PlayGuess)

---------------------------------------------------------------------------
(* Accounts: every request of the application, the submitted letters drawn *)
(* from a right letter, a second letter and a character that is no letter. *)
(* Which letters a game has seen has no part in registration, login or     *)
(* logout.                                                                 *)

AuthLetters == {<<"a">>, <<"b">>, <<"_">>}

AuthLetter ==
    \E letter \in AuthLetters, commit_fails \in CommitFailures :
        \E o \in hangman_game_letter(session, users, api_key, letter, FALSE, commit_fails) :
            Becomes(o)

NextAuth ==
    \/ LookupFailure
    \/ Index
    \/ PostGenre
    \/ AuthLetter
    \/ Restart
    \/ Logout
    \/ Register
    \/ Login

SpecAuth == Init /\ [][NextAuth]_vars

---------------------------------------------------------------------------
(* Properties of the game (checked under Spec) *)

HasGame == Has(session, "word_to_guess")

\* every character of the word is among the guessed letters
AllGuessed(word, guessed) == \A i \in 1..Len(word) : BagIn(<<word[i]>>, guessed)

GameWon == HasGame /\ AllGuessed(session["word_to_guess"], session["guessed_letters"])

GameLost == HasGame /\ session["lives"] = 0

InProgress == HasGame /\ ~GameWon /\ ~GameLost

\* the session s holds the same word, lives and guessed letters as now
SameGame(s) ==
    /\ Has(s, "word_to_guess") /\ s["word_to_guess"] = session["word_to_guess"]
    /\ Has(s, "lives") /\ s["lives"] = session["lives"]
    /\ Has(s, "guessed_letters") /\ s["guessed_letters"] = session["guessed_letters"]

\* the outcomes of submitting letter now, the user lookup failing or not
Submit(letter, lookup_fails) ==
    UNION {hangman_game_letter(session, users, api_key, letter, lookup_fails, commit_fails)
           : commit_fails \in CommitFailures}

\* the submitted value is no single alphabetic character
Invalid(letter) == ~(IsAlpha(letter) /\ Len(letter) = 1)

\* C1: whenever the session holds a game, lives is within 0..MAX_LIVES and
\* the index MAX_LIVES - lives picks one of the seven drawings.
C1_LivesInRange ==
    HasGame =>
        /\ session["lives"] \in 0..MAX_LIVES
        /\ LivesIndex(session["lives"]) \in DOMAIN HANGMAN_STAGES

\* a lost game, in a session that logged in and out along the way
C1_Witness ==
    /\ HasGame /\ session["lives"] = 0
    /\ LivesIndex(session["lives"]) = 6
    /\ DOMAIN users # {} /\ ~Authenticated(session)

\* C2: submitting a letter that is already guessed changes neither lives
\* nor the guessed letters nor the word, and in a game in progress it sets
\* the message to the notice; lives has been decremented at most once per
\* distinct guessed letter.
C2_RepeatedGuess ==
    HasGame =>
        /\ \A letter \in LetterInputs :
              BagIn(LowerStr(letter), session["guessed_letters"]) =>
                 \A lookup_fails \in LookupFailures : \A o \in Submit(letter, lookup_fails) :
                    /\ SameGame(o.session)
                    /\ InProgress /\ ~lookup_fails => o.session["message"] = "already"
        /\ MAX_LIVES - session["lives"] <= Cardinality(BagToSet(session["guessed_letters"]))

\* a game in progress whose last guess was a repeated letter, lives already lost
C2_Witness ==
    /\ InProgress /\ session["message"] = "already"
    /\ session["lives"] < MAX_LIVES

\* C3: the game-over flag get_game_state computes is true exactly when every
\* character of the word is guessed or lives is zero; after the call a game
\* with every letter guessed carries the message of a win, a game with zero
\* lives the message of a loss.
C3_GameOverFlag ==
    HasGame =>
        \A commit_fails \in CommitFailures :
        \A g \in GetGameState(session, CurrentUser(session, users), users, api_key, commit_fails) :
            /\ g.game_state.is_game_over <=> (GameWon \/ GameLost)
            /\ GameWon => HasWON(g.session["message"])
            /\ GameLost => HasOVER(g.session["message"])

\* a won game of a word with two letters, some lives lost
C3_Witness ==
    /\ GameWon /\ HasWON(session["message"])
    /\ Len(session["word_to_guess"]) = 2 /\ session["lives"] < MAX_LIVES

\* C4: in a won or lost game every submission is rejected: the word, lives
\* and guessed letters stay, and the message stays that of the win or loss;
\* rendering the page, registering and logging in leave the game as it is.
C4_TerminalSticky ==
    (GameWon \/ GameLost) =>
        /\ \A letter \in LetterInputs, lookup_fails \in LookupFailures :
              \A o \in Submit(letter, lookup_fails) :
                 /\ SameGame(o.session)
                 /\ ~lookup_fails => HasWON(o.session["message"]) \/ HasOVER(o.session["message"])
        /\ \A lookup_fails \in LookupFailures, commit_fails \in CommitFailures :
              \A o \in hangman_game_render(session, users, api_key, lookup_fails, commit_fails) :
                 SameGame(o.session)
        /\ \A form \in Forms(PasswordInputs \cup WrongPasswords), fails \in BOOLEAN :
              /\ SameGame(register(session, users, "POST", form, fails, FALSE).session)
              /\ SameGame(login(session, users, "POST", form, fails).session)

\* a lost game that a later request has left with the message of the loss
C4_Witness ==
    /\ GameLost /\ session["message"] = "game_over"
    /\ Authenticated(session)

\* C5: in a game in progress a submitted value that is not one alphabetic
\* character leaves the word, lives and guessed letters unchanged and, the
\* request reaching the guess, sets the message to the error message.
C5_InvalidGuess ==
    InProgress =>
        \A letter \in LetterInputs :
            Invalid(letter) =>
               \A lookup_fails \in LookupFailures : \A o \in Submit(letter, lookup_fails) :
                  /\ SameGame(o.session)
                  /\ ~lookup_fails => o.session["message"] = "invalid"

\* a game in progress whose last submission was invalid
C5_Witness ==
    /\ InProgress /\ session["message"] = "invalid"
    /\ session["guessed_letters"] # EmptyBag

\* C6: in a game in progress a single alphabetic character not yet guessed,
\* the request reaching the guess, is added to the guessed letters; if it
\* occurs in the word lives is unchanged and the game is won exactly when
\* every character of the word is then guessed; if not, lives decreases by 1
\* and the game is lost exactly when lives is then 0.
C6_ValidGuess ==
    InProgress =>
        \A letter \in LetterInputs :
            LET guess == LowerStr(letter)
                word  == session["word_to_guess"]
            IN  (~Invalid(letter) /\ ~BagIn(guess, session["guessed_letters"])) =>
                   \A o \in Submit(letter, FALSE) :
                      LET after == o.session["guessed_letters"]
                      IN  /\ o.session["word_to_guess"] = word
                          /\ after = session["guessed_letters"] (+) SetToBag({guess})
                          /\ IF CharIn(guess[1], word)
                               THEN /\ o.session["lives"] = session["lives"]
                                    /\ HasWON(o.session["message"]) <=> AllGuessed(word, after)
                                    /\ ~HasOVER(o.session["message"])
                               ELSE /\ o.session["lives"] = session["lives"] - 1
                                    /\ HasOVER(o.session["message"]) <=> o.session["lives"] = 0
                                    /\ ~HasWON(o.session["message"])

\* a game in progress after a right and a wrong guess
C6_Witness ==
    /\ InProgress /\ session["message"] \in {"correct", "incorrect"}
    /\ session["lives"] < MAX_LIVES
    /\ \E i \in 1..Len(session["word_to_guess"]) :
          BagIn(<<session["word_to_guess"][i]>>, session["guessed_letters"])

---------------------------------------------------------------------------
(* Properties of the word source (checked under SpecApi) *)

RequestFailed(reply) == reply.kind \in {"timeout", "bad_status"}

\* the reply carries a word without a space and nothing that raises
Usable(reply) ==
    /\ reply.kind = "json_results"
    /\ \E i \in 1..Len(reply.results) :
          reply.results[i].type = "word" /\ ~CharIn(" ", reply.results[i].word)
    /\ \A i \in 1..Len(reply.results) : reply.results[i].type \in {"word", "no_word"}

\* C7: whatever the API answers, get_word_from_api returns a word and does
\* not raise.
C7_NeverRaises == fetch.called => ~fetch.result.raised

---------------------------------------------------------------------------
(* Properties of persistence failures (checked under Spec) *)

\* C9: every persistence failure during a request (the user lookup of the
\* game route, the lookup and the insert of a registration, the lookup of a
\* login, the commit of a high score) is caught: the request completes with
\* a normal response, not the 500 page of an uncaught exception, and the
\* user table is left as it was.
C9_FailuresCaught ==
    LET Handled(o) == o.response = "ok" /\ o.users = users
    IN  /\ \A lookup_fails \in LookupFailures :
           \A o \in hangman_game_render(session, users, api_key, lookup_fails, FALSE) :
              lookup_fails => Handled(o)
        /\ \A commit_fails \in CommitFailures :
           \A o \in hangman_game_render(session, users, api_key, FALSE, commit_fails) :
              commit_fails => Handled(o)
        /\ \A form \in Forms(PasswordInputs) :
              /\ Handled(register(session, users, "POST", form, TRUE, FALSE))
              /\ Handled(register(session, users, "POST", form, FALSE, TRUE))
              /\ Handled(login(session, users, "POST", form, TRUE))

---------------------------------------------------------------------------
(* Properties of the word mask (checked under SpecMask) *)

\* the number of positions of the display that show no placeholder
Revealed(display) == Cardinality({i \in 1..Len(display) : display[i] # "_"})

\* C10: the number of non-placeholder positions of the mask equals the
\* number of positions of the word whose character is a guessed letter.
C10_MaskCount ==
    mask.applied =>
        Revealed(mask.display)
          = Cardinality({i \in 1..Len(mask.word) : BagIn(<<mask.word[i]>>, mask.guessed)})

\* a word with a repeated letter, guessed, next to a word partly revealed
C10_Witness ==
    /\ mask.applied
    /\ mask.word = <<"a", "a">> /\ BagIn(<<"a">>, mask.guessed)
    /\ Revealed(mask.display) = 2

\* C11: masking the display word again with the same guessed letters gives
\* the display word back.
C11_MaskIdempotent ==
    mask.applied => DisplayWord(mask.display, mask.guessed) = mask.display

\* a word partly revealed: one letter shown, one placeholder, masked again
C11_Witness ==
    /\ mask.applied
    /\ mask.word = <<"a", "b">>
    /\ mask.display = <<"a", "_">>
    /\ DisplayWord(mask.display, mask.guessed) = <<"a", "_">>

---------------------------------------------------------------------------
(* Further properties of the game (checked under Spec) *)

\* the display word get_game_state computes for the game of the session
Displayed ==
    CheckGame(session, CurrentUser(session, users), users, FALSE).game_state.display_word

\* C12: the display word of a game has as many characters as the secret
\* word, and its character at each position is the placeholder or the
\* secret word's character at that position.
C12_MaskShape ==
    HasGame =>
        /\ Len(Displayed) = Len(session["word_to_guess"])
        /\ \A i \in 1..Len(Displayed) :
              Displayed[i] \in {"_", session["word_to_guess"][i]}

\* a game whose word is partly revealed after a right and a wrong guess
C12_Witness ==
    /\ InProgress /\ session["lives"] < MAX_LIVES
    /\ session["word_to_guess"] = <<"a", "b">>
    /\ Displayed = <<"a", "_">>

\* the session s holds the same value as now under key k, or lacks it as now
SameKey(s, k) == Has(s, k) = Has(session, k) /\ (Has(s, k) => s[k] = session[k])

\* the session s holds a game just started: a word, no guessed letter, 6 lives
FreshGame(s) ==
    /\ Has(s, "word_to_guess")
    /\ Has(s, "guessed_letters") /\ s["guessed_letters"] = EmptyBag
    /\ Has(s, "lives") /\ s["lives"] = MAX_LIVES

\* C13: from any game state a restart leaves a game just started, with a
\* word of the word source, and leaves the genre, the authentication and the
\* user table as they were; a logout removes the game and the authentication
\* from the session, and the next visit then starts a fresh game.
C13_RestartLogout ==
    HasGame =>
        /\ \A o \in restart(session, users, api_key) :
              /\ FreshGame(o.session)
              /\ \E r \in WordSource(api_key, Get(session, "current_genre", GENRE_LIST[1])) :
                    ~r.raised /\ o.session["word_to_guess"] = r.word
              /\ SameKey(o.session, "current_genre")
              /\ SameKey(o.session, "user_id")
              /\ SameKey(o.session, "is_authenticated")
              /\ o.users = users
        /\ LET out == logout(session, users)
           IN  /\ \A k \in {"word_to_guess", "guessed_letters", "lives", "message",
                            "user_id", "is_authenticated"} : ~Has(out.session, k)
               /\ \A o \in hangman_game_render(out.session, out.users, api_key, FALSE, FALSE) :
                     FreshGame(o.session)

\* P holds of every outcome of a request to the game route that reaches
\* get_game_state (a page view or a submitted letter), no database
\* operation failing
AllGameRequests(P(_)) ==
    /\ \A o \in hangman_game_render(session, users, api_key, FALSE, FALSE) : P(o)
    /\ \A letter \in LetterInputs :
          \A o \in hangman_game_letter(session, users, api_key, letter, FALSE, FALSE) : P(o)

\* the session s holds a won game
WonIn(s) == Has(s, "word_to_guess") /\ AllGuessed(s["word_to_guess"], s["guessed_letters"])

MaxOf(a, b) == IF a >= b THEN a ELSE b

\* C14: a request that takes the game of an authenticated user into the won
\* state (the game was not flagged won before it) leaves the user's high
\* score at max(previous, 10 * len(word) + 5 * lives); every other request
\* to the game route, on a game in progress, lost or already flagged won,
\* leaves the user table as it was.
C14_HighScoreOnce ==
    LET user == CurrentUser(session, users)
        Stored(o) ==
            IF WonIn(o.session) /\ ~(HasGame /\ HasWON(session["message"]))
              THEN o.users = [users EXCEPT ![user].high_score =
                                 MaxOf(users[user].high_score,
                                       10 * Len(o.session["word_to_guess"])
                                         + 5 * o.session["lives"])]
              ELSE o.users = users
    IN  user # NoUser => AllGameRequests(Stored)

\* a second game won with a lower score than the stored high score
C14_Witness ==
    /\ CurrentUser(session, users) # NoUser
    /\ GameWon /\ session["message"] = "won_score"
    /\ users[CurrentUser(session, users)].high_score
          > 10 * Len(session["word_to_guess"]) + 5 * session["lives"]

\* the guessed letters of the session that do not occur in its word
Misses ==
    {g \in BagToSet(session["guessed_letters"]) : ~StrIn(g, session["word_to_guess"])}

\* C15: in every game state each guessed letter is a single alphabetic
\* character and occurs once among the guessed letters, and lives is 6 less
\* the number of guessed letters that do not occur in the word.
C15_GuessedAndLives ==
    HasGame =>
        /\ \A g \in BagToSet(session["guessed_letters"]) :
              /\ CopiesIn(g, session["guessed_letters"]) = 1
              /\ Len(g) = 1 /\ IsAlpha(g)
        /\ session["lives"] = 6 - Cardinality(Misses)

\* a game chosen by genre, by a session that registered, with right and
\* wrong guesses made
C15_Witness ==
    /\ HasGame /\ session["message"] # "new_game"
    /\ Get(session, "current_genre", "") = GENRE_LIST[2]
    /\ DOMAIN users # {}
    /\ Cardinality(Misses) = 2
    /\ Cardinality(BagToSet(session["guessed_letters"])) = 3

\* C16: whenever the game page is rendered, no database operation failing,
\* for a session authenticated as a user and holding a won game, that user's
\* stored high score is at least 10 * len(word) + 5 * lives of the game.
C16_HighScoreCoversWin ==
    \A o \in hangman_game_render(session, users, api_key, FALSE, FALSE) :
        LET user == CurrentUser(o.session, o.users)
        IN  (o.response = "ok" /\ user # NoUser /\ WonIn(o.session)) =>
               o.users[user].high_score
                  >= 10 * Len(o.session["word_to_guess"]) + 5 * o.session["lives"]

---------------------------------------------------------------------------
(* Properties of concurrent requests (checked under SpecRace) *)

\* C17: no step lowers a user's stored high score.
C17_HighScoreMonotone ==
    [][\A u \in DOMAIN users :
          u \in DOMAIN users' /\ users'[u].high_score >= users[u].high_score]_vars

---------------------------------------------------------------------------
(* Properties of a game played to its end (checked under SpecPlay) *)

\* the distinct letters of a word
DistinctLetters(word) == {word[i] : i \in {j \in 1..Len(word) : IsAlpha(<<word[j]>>)}}

\* C18: the number of accepted guesses of a game never exceeds the number
\* of distinct letters of its word plus 6, and a game in progress whose
\* player keeps submitting new valid letters is eventually won or lost.
C18_GameEnds ==
    /\ [](HasGame =>
            Cardinality(BagToSet(session["guessed_letters"]))
               <= Cardinality(DistinctLetters(session["word_to_guess"])) + 6)
    /\ (InProgress ~> (GameWon \/ GameLost))

\* a word that cannot be won, lost at the bound: its letter and six misses
C18_Witness ==
    /\ GameLost /\ ~GameWon
    /\ session["word_to_guess"] = <<"a", "-">>
    /\ Cardinality(BagToSet(session["guessed_letters"])) = 7

---------------------------------------------------------------------------
(* Properties of the secret word (checked under Spec) *)

\* C19: the secret word of every game is non-empty and each of its
\* characters is alphabetic, so that a valid guess can reveal it.
C19_WordGuessable ==
    HasGame =>
        /\ Len(session["word_to_guess"]) > 0
        /\ \A i \in 1..Len(session["word_to_guess"]) :
              IsAlpha(<<session["word_to_guess"][i]>>)

---------------------------------------------------------------------------
(* Properties of authentication (checked under SpecAuth) *)

\* the session s carries the same authentication as the session now
SameAuth(s) == SameKey(s, "user_id") /\ SameKey(s, "is_authenticated")

\* the session s is authenticated as user u
AuthenticatedAs(s, u) == Authenticated(s) /\ s["user_id"] = u

\* what a registration with this form leaves when it creates the user
Created(o, form) ==
    /\ form.username \notin DOMAIN users
    /\ DOMAIN o.users = DOMAIN users \cup {form.username}
    /\ o.users[form.username].password_hash = set_password(form.password)
    /\ \A u \in DOMAIN users : o.users[u] = users[u]
    /\ AuthenticatedAs(o.session, form.username)

\* the password of the form hashes to the stored hash of the form's user
Matches(form) ==
    /\ form.username \in DOMAIN users
    /\ users[form.username].password_hash = set_password(form.password)

\* C20: an authenticated session names an existing user.  A registration
\* either creates the user of its form and authenticates the session as
\* that user, or creates no user and leaves the authentication as it was,
\* the latter whenever the username is taken.  A login creates no user; it
\* leaves the authentication as it was unless the password matches the
\* stored hash of the form's user, whom the session then names.  A logout
\* leaves the session unauthenticated.  No request to the game or restart
\* route changes the authentication.
C20_AuthSound ==
    /\ Authenticated(session) => session["user_id"] \in DOMAIN users
    /\ \A form \in Forms(PasswordInputs), lookup_fails \in BOOLEAN, commit_fails \in BOOLEAN :
          LET o == register(session, users, "POST", form, lookup_fails, commit_fails)
          IN  /\ Created(o, form) \/ (o.users = users /\ SameAuth(o.session))
              /\ form.username \in DOMAIN users => (o.users = users /\ SameAuth(o.session))
    /\ \A form \in Forms(PasswordInputs \cup WrongPasswords), lookup_fails \in BOOLEAN :
          LET o == login(session, users, "POST", form, lookup_fails)
          IN  /\ o.users = users
              /\ SameAuth(o.session)
                    \/ (Matches(form) /\ AuthenticatedAs(o.session, form.username))
              /\ ~Matches(form) => SameAuth(o.session)
    /\ LET o == register(session, users, "GET", NoForm, FALSE, FALSE)
       IN  o.users = users /\ SameAuth(o.session)
    /\ LET o == login(session, users, "GET", NoForm, FALSE)
       IN  o.users = users /\ SameAuth(o.session)
    /\ ~Authenticated(logout(session, users).session)
    /\ ~Has(logout(session, users).session, "user_id")
    /\ LET Kept(o) == SameAuth(o.session)
       IN  /\ AllGameRequests(Kept)
           /\ \A o \in restart(session, users, api_key) : Kept(o)
           /\ \A o \in hangman_game_render(session, users, api_key, TRUE, FALSE) : Kept(o)
           /\ \A genre \in GenreInputs :
                 \A o \in hangman_game_genre(session, users, api_key, genre, FALSE) : Kept(o)

\* a session logged in again after a logout: the user has a high score from
\* an earlier game, and the session holds no game yet
C20_Witness ==
    /\ Authenticated(session) /\ ~HasGame
    /\ session["user_id"] \in DOMAIN users
    /\ users[session["user_id"]].high_score > 0

=============================================================================
